---- MODULE Spec2Model ----
(***************************************************************************)
(* Lesson Summarizer (src/main.py): a Streamlit script whose sessions keep *)
(* a chat transcript, a summary and a Gemini chat client in session state  *)
(* and save, list, load and delete course records in the Supabase table    *)
(* "Courses".                                                              *)
(*                                                                         *)
(* A Python str is modelled as a sequence of characters (one-character or  *)
(* atomic tokens), so that concatenation, JSON encoding and JSON decoding  *)
(* are computed and not assumed.                                           *)
(***************************************************************************)
EXTENDS Integers, Sequences, FiniteSets, TLC

\* ------------------------------------------------------------------------
\* Bounds of the model
\* ------------------------------------------------------------------------
\* a chat send is tried while the transcript would stay within MaxMsgs messages
MaxMsgs == 2
\* a send is answered while the client's history would stay within MaxHist turns
MaxHist == 2
\* most rows of a table that holds historical rows
MaxRows == 3
\* most messages of a transcript whose role mapping is checked on its own
MaxTranscript == 3
\* a chat send is tried while the transcript would stay within MaxChat
\* messages; MaxMsgs applies where the sessions also save
MaxChat == 3


\* ------------------------------------------------------------------------
\* Text
\* ------------------------------------------------------------------------
EMPTY == << >>
NL == "\n"
QUOTE == "\""
BACKSLASH == "\\"

\* the fixed instruction prompt, as one token
PROMPT == <<"PROMPT">>
TABLE_NAME == "Courses"
SELECT_PLACEHOLDER == <<"--Select--">>

USER == <<"user">>
ASSISTANT == <<"assistant">>
MODEL == <<"model">>

\* Python's None, for a value that is otherwise a one-element sequence
None == << >>
\* a call that raises
RAISES == <<"raises">>

\* values of the course-name text input (its default is "General")
Names == {<<"General">>, <<"X">>}
\* texts typed into the chat input
Prompts == {<<"q">>}
\* texts the Gemini API answers with; the answer holds a double quote
Responses == {<<"r", QUOTE>>}

Range(f) == {f[i] : i \in DOMAIN f}

RECURSIVE Concat(_)
\* "".join(parts)
Concat(parts) ==
  IF parts = << >> THEN << >> ELSE Head(parts) \o Concat(Tail(parts))

\* ------------------------------------------------------------------------
\* JSON (json.dumps / json.loads on a list of {"role", "content"} dicts)
\* ------------------------------------------------------------------------
\* faulty variant of EscapeChar: a double quote is written as an apostrophe
EscapeChar_QuoteAsApostrophe(c) ==
  IF c = QUOTE THEN <<"'">>
  ELSE IF c = BACKSLASH THEN <<BACKSLASH, BACKSLASH>>
  ELSE IF c = NL THEN <<BACKSLASH, "n">>
  ELSE <<c>>

\* the escape json.dumps writes for one character of a string
EscapeChar(c) ==
  IF c = QUOTE THEN <<BACKSLASH, QUOTE>>
  ELSE IF c = BACKSLASH THEN <<BACKSLASH, BACKSLASH>>
  ELSE IF c = NL THEN <<BACKSLASH, "n">>
  ELSE <<c>>

\* json.dumps of a str
json_dumps_str(str) ==
  <<QUOTE>> \o Concat([i \in 1..Len(str) |-> EscapeChar(str[i])]) \o <<QUOTE>>

\* json.dumps of one message dict
json_dumps_msg(m) ==
  <<"{">> \o json_dumps_str(<<"role">>) \o <<": ">> \o json_dumps_str(m.role)
    \o <<", ">>
    \o json_dumps_str(<<"content">>) \o <<": ">> \o json_dumps_str(m.content)
    \o <<"}">>

\* json.dumps(messages)
json_dumps(msgs) ==
  <<"[">>
    \o Concat([i \in 1..Len(msgs) |->
                 (IF i = 1 THEN << >> ELSE <<", ">>) \o json_dumps_msg(msgs[i])])
    \o <<"]">>

RECURSIVE ParseStr(_, _, _)
\* json.loads of a string whose opening quote is at t[i-1]
ParseStr(t, i, acc) ==
  IF t[i] = QUOTE THEN [val |-> acc, next |-> i + 1]
  ELSE IF t[i] = BACKSLASH
    THEN ParseStr(t, i + 2, Append(acc, IF t[i + 1] = "n" THEN NL ELSE t[i + 1]))
    ELSE ParseStr(t, i + 1, Append(acc, t[i]))

\* json.loads of one two-key object that opens at t[i]
ParseObj(t, i) ==
  LET k1 == ParseStr(t, i + 2, << >>)
      v1 == ParseStr(t, k1.next + 2, << >>)
      k2 == ParseStr(t, v1.next + 2, << >>)
      v2 == ParseStr(t, k2.next + 2, << >>)
      get(k) == IF k2.val = k THEN v2.val ELSE v1.val
  IN [val |-> [role |-> get(<<"role">>), content |-> get(<<"content">>)],
      next |-> v2.next + 1]

RECURSIVE ParseList(_, _, _)
\* json.loads of the elements of a list, from t[i] on
ParseList(t, i, acc) ==
  IF t[i] = "]" THEN acc
  ELSE IF t[i] = ", " THEN ParseList(t, i + 1, acc)
  ELSE LET o == ParseObj(t, i) IN ParseList(t, o.next, Append(acc, o.val))

\* json.loads(raw_messages)
json_loads(t) == ParseList(t, 2, << >>)

\* ------------------------------------------------------------------------
\* The table "Courses": its rows in created_at order (oldest first)
\* ------------------------------------------------------------------------
\* the rows a filter .eq("course_name", name) selects
RowsOf(tbl, name) == {i \in DOMAIN tbl : tbl[i].course_name = name}

\* SelectSeq without a lambda: the rows of tbl that are not named name
RECURSIVE Without(_, _)
Without(tbl, name) ==
  IF tbl = << >> THEN << >>
  ELSE IF Head(tbl).course_name = name THEN Without(Tail(tbl), name)
  ELSE <<Head(tbl)>> \o Without(Tail(tbl), name)

\* faulty variant of Upsert: a plain insert
Upsert_Insert(tbl, data) == Append(tbl, data)

\* faulty variant of Upsert: on a conflict only the summary and the date are
\* updated, the messages column keeps the earlier writer's value
Upsert_KeepsMessages(tbl, data) ==
  IF RowsOf(tbl, data.course_name) = {}
    THEN Append(tbl, data)
    ELSE [i \in DOMAIN tbl |->
            IF tbl[i].course_name = data.course_name
              THEN [data EXCEPT !.messages = tbl[i].messages]
              ELSE tbl[i]]

\* table.upsert(data, on_conflict="course_name"): the table afterwards
Upsert(tbl, data) ==
  IF RowsOf(tbl, data.course_name) = {}
    THEN Append(tbl, data)
    ELSE [i \in DOMAIN tbl |->
            IF tbl[i].course_name = data.course_name THEN data ELSE tbl[i]]

\* faulty variant of DeleteRows: the filter is .neq instead of .eq
RECURSIVE DeleteRows_Neq(_, _)
DeleteRows_Neq(tbl, name) ==
  IF tbl = << >> THEN << >>
  ELSE IF Head(tbl).course_name # name THEN DeleteRows_Neq(Tail(tbl), name)
  ELSE <<Head(tbl)>> \o DeleteRows_Neq(Tail(tbl), name)

\* table.delete().eq("course_name", name): the table afterwards
DeleteRows(tbl, name) == Without(tbl, name)

\* the row dict save_to_db builds
SaveData(name, summary, msgs, day) ==
  [course_name |-> name, summary |-> summary,
   messages |-> json_dumps(msgs), date |-> day]

\* retrieve_all_courses: the lists list(set(...)) may return (set order is
\* arbitrary), given response.data
RECURSIVE Orderings(_)
Orderings(S) ==
  IF S = {} THEN {<< >>}
  ELSE UNION {{<<x>> \o r : r \in Orderings(S \ {x})} : x \in S}

\* faulty variant of retrieve_all_courses: the names are not passed through set()
retrieve_all_courses_NoSet(data) ==
  {[i \in DOMAIN data |-> data[i].course_name]}

retrieve_all_courses(data) ==
  IF data # << >>
    THEN Orderings({data[i].course_name : i \in DOMAIN data})
    ELSE {<< >>}

\* faulty variant of retrieve_course_data: the .eq filter is missing
retrieve_course_data_NoFilter(tbl, name) ==
  IF tbl # << >> THEN <<tbl[Len(tbl)]>> ELSE None

\* retrieve_course_data: <<row>> for the newest row named course_name, or None
retrieve_course_data(tbl, course_name) ==
  LET hits == RowsOf(tbl, course_name)
  IN IF hits # {}
       THEN <<tbl[CHOOSE i \in hits : \A j \in hits : j <= i]>>
       ELSE None


\* ------------------------------------------------------------------------
\* Inputs
\* ------------------------------------------------------------------------
\* an uploaded PDF is the sequence of its pages' extracted texts
FileA == << <<"A">> >>
FileB == << <<"B">> >>
FileAB == << <<"A">>, <<"B">> >>
FileNoPages == << >>
\* the upload lists tried by Summarize
Uploads == { <<FileA, FileB>>, <<FileNoPages, FileAB>> }

\* contents history.json may have; None when the file does not exist
HistoryFiles ==
  { None,
    << <<[role |-> USER, parts |-> <<[text |-> <<"q">>]>>],
         [role |-> MODEL, parts |-> <<[text |-> <<"r", QUOTE>>]>>]>> >> }

\* ------------------------------------------------------------------------
\* State
\* ------------------------------------------------------------------------
VARIABLES
  table,            \* rows of the Supabase table "Courses", oldest first
  today,            \* date.today(), the same day throughout a run
  history_json,     \* the file history.json: <<its content>> or None
  pc,               \* per session: "new", "idle", "load", "delete", "mapped"
  messages,         \* st.session_state.messages
  summary,          \* st.session_state.summary
  chat_history,     \* history held by st.session_state.chat_session
  course_name,      \* value of the sidebar text input
  db_courses,       \* the script run's db_courses (empty between runs)
  selected_course   \* the script run's selected_course (placeholder between runs)

vars == <<table, today, history_json, pc, messages, summary, chat_history,
          course_name, db_courses, selected_course>>

\* lines 94-99: chat_history as the script loads it
LoadHistoryFile(file) == IF file = None THEN << >> ELSE file[1]

\* faulty variant of new_chat_history: the client is rebuilt with the history
\* read from history.json instead of the loaded transcript
new_chat_history_FromFile(msgs) == LoadHistoryFile(history_json)

\* faulty variant of new_chat_history: the test of the role is inverted
new_chat_history_RoleSwapped(msgs) ==
  [i \in 1..Len(msgs) |->
     [role |-> IF msgs[i].role = USER THEN MODEL ELSE USER,
      parts |-> <<[text |-> msgs[i].content]>>]]

\* faulty variant of new_chat_history: the stored role is passed on unmapped
new_chat_history_RoleKept(msgs) ==
  [i \in 1..Len(msgs) |->
     [role |-> msgs[i].role, parts |-> <<[text |-> msgs[i].content]>>]]

\* lines 168-173: the history rebuilt from a loaded transcript
new_chat_history(msgs) ==
  [i \in 1..Len(msgs) |->
     [role |-> IF msgs[i].role = USER THEN USER ELSE MODEL,
      parts |-> <<[text |-> msgs[i].content]>>]]

\* chat_session.send_message: the history after an answered send
send_message(history, prompt, answer) ==
  history \o <<[role |-> USER, parts |-> <<[text |-> prompt]>>],
               [role |-> MODEL, parts |-> <<[text |-> answer]>>]>>

\* faulty variant of ExtractText: one newline after each file, none after a page
ExtractText_NewlinePerFile(files) ==
  Concat([f \in 1..Len(files) |-> Concat(files[f]) \o <<NL>>])

\* lines 235-241: the text Summarize extracts from the uploaded files
ExtractText(files) ==
  Concat([f \in 1..Len(files) |->
            Concat([p \in 1..Len(files[f]) |-> files[f][p] \o <<NL>>])])

\* line 246: the prompt Summarize sends
SummarizePrompt(files) == ExtractText(files) \o PROMPT


\* the sessions of a run are the domain of pc
Sessions == DOMAIN pc

\* no session has run the script yet
NoSessionState(SS) ==
  /\ pc = [s \in SS |-> "new"]
  /\ messages = [s \in SS |-> << >>]
  /\ summary = [s \in SS |-> EMPTY]
  /\ chat_history = [s \in SS |-> << >>]
  /\ course_name = [s \in SS |-> <<"General">>]
  /\ db_courses = [s \in SS |-> << >>]
  /\ selected_course = [s \in SS |-> SELECT_PLACEHOLDER]

\* the table when the run starts: empty, or holding a row saved the day before
InitialTables ==
  { << >>,
    <<SaveData(<<"X">>, <<"r", QUOTE>>, << >>, 0)>> }

Init ==
  /\ table \in InitialTables
  /\ today = 1
  /\ history_json \in HistoryFiles
  /\ NoSessionState({"s1"})

\* lines 105-119, first script run of a session
FirstRun(s) ==
  /\ pc[s] = "new"
  /\ pc' = [pc EXCEPT ![s] = "idle"]
  /\ chat_history' = [chat_history EXCEPT ![s] = LoadHistoryFile(history_json)]
  /\ messages' = [messages EXCEPT ![s] = << >>]
  /\ summary' = [summary EXCEPT ![s] = EMPTY]
  /\ course_name' = [course_name EXCEPT ![s] = <<"General">>]
  /\ UNCHANGED <<table, today, history_json, db_courses, selected_course>>

\* line 123: the user edits the course name; the script reruns
EditCourseName(s, n) ==
  /\ pc[s] = "idle"
  /\ n # course_name[s]
  /\ course_name' = [course_name EXCEPT ![s] = n]
  /\ UNCHANGED <<table, today, history_json, pc, messages, summary,
                 chat_history, db_courses, selected_course>>

\* lines 105-119: session s has its keys in st.session_state
HasKeys(s) == pc[s] # "new"

\* faulty variant of Rerun: the chat session is created on every run, the
\* test for the key is missing
Rerun_NewClient(s) ==
  /\ pc[s] = "idle"
  /\ chat_history' = [chat_history EXCEPT ![s] = LoadHistoryFile(history_json)]
  /\ messages' = [messages EXCEPT ![s] = IF HasKeys(s) THEN @ ELSE << >>]
  /\ summary' = [summary EXCEPT ![s] = IF HasKeys(s) THEN @ ELSE EMPTY]
  /\ UNCHANGED <<table, today, history_json, pc, course_name, db_courses,
                 selected_course>>

\* lines 105-119 and the script body with no widget event: a rerun of the
\* script in a session that has run it before
Rerun(s) ==
  /\ pc[s] = "idle"
  /\ chat_history' = [chat_history EXCEPT ![s] =
       IF HasKeys(s) THEN @ ELSE LoadHistoryFile(history_json)]
  /\ messages' = [messages EXCEPT ![s] = IF HasKeys(s) THEN @ ELSE << >>]
  /\ summary' = [summary EXCEPT ![s] = IF HasKeys(s) THEN @ ELSE EMPTY]
  /\ UNCHANGED <<table, today, history_json, pc, course_name, db_courses,
                 selected_course>>

\* save_to_db, lines 26-36: ok tells whether the store carries out the upsert
\* and answers with the row; otherwise response.data is empty
save_to_db(tbl, name, sum, msgs, day, ok) ==
  LET data == SaveData(name, sum, msgs, day)
  IN [table |-> IF ok THEN Upsert(tbl, data) ELSE tbl,
      saved |-> IF (IF ok THEN <<data>> ELSE << >>) # << >> THEN TRUE ELSE FALSE]

\* lines 128-131: what the Save Course handler shows for save_to_db's result
SaveCourseNotice(saved) == IF saved THEN "info" ELSE "warning"

\* lines 126-131: Save Course
SaveCourse(s, ok) ==
  /\ pc[s] = "idle"
  /\ LET r == save_to_db(table, course_name[s], summary[s], messages[s], today, ok)
     IN /\ table' = r.table
  /\ UNCHANGED <<today, history_json, pc, messages, summary, chat_history,
                 course_name, db_courses, selected_course>>

\* lines 207-208: Quick Save
QuickSave(s, ok) ==
  /\ pc[s] = "idle"
  /\ LET r == save_to_db(table, course_name[s], summary[s], messages[s], today, ok)
     IN /\ table' = r.table
  /\ UNCHANGED <<today, history_json, pc, messages, summary, chat_history,
                 course_name, db_courses, selected_course>>

\* faulty variant of ClearCurrentSession: the chat client is recreated as well
ClearCurrentSession_NewClient(s) ==
  /\ pc[s] = "idle"
  /\ summary' = [summary EXCEPT ![s] = EMPTY]
  /\ messages' = [messages EXCEPT ![s] = << >>]
  /\ chat_history' = [chat_history EXCEPT ![s] = << >>]
  /\ UNCHANGED <<table, today, history_json, pc, course_name, db_courses,
                 selected_course>>

\* lines 132-135: Clear Current Session
ClearCurrentSession(s) ==
  /\ pc[s] = "idle"
  /\ summary' = [summary EXCEPT ![s] = EMPTY]
  /\ messages' = [messages EXCEPT ![s] = << >>]
  /\ UNCHANGED <<table, today, history_json, pc, chat_history, course_name,
                 db_courses, selected_course>>

\* lines 209-212: Clear Chat
ClearChat(s) ==
  /\ pc[s] = "idle"
  /\ messages' = [messages EXCEPT ![s] = << >>]
  /\ UNCHANGED <<table, today, history_json, pc, summary, chat_history,
                 course_name, db_courses, selected_course>>


\* lines 140-153 (and 183-185): the run lists the courses and reads the
\* selectbox; button is "load" or "delete"
BeginSelected(s, c, button) ==
  /\ pc[s] = "idle"
  /\ \E courses \in retrieve_all_courses(table) :
       /\ courses # << >>
       /\ c \in Range(<<SELECT_PLACEHOLDER>> \o courses)
       /\ db_courses' = [db_courses EXCEPT ![s] = courses]
  /\ c # SELECT_PLACEHOLDER
  /\ selected_course' = [selected_course EXCEPT ![s] = c]
  /\ pc' = [pc EXCEPT ![s] = button]
  /\ UNCHANGED <<table, today, history_json, messages, summary, chat_history,
                 course_name>>

\* lines 157-179: the session state Load Course leaves for a record it found
LoadedSession(course_data) ==
  LET raw_messages == course_data[1].messages
      msgs == json_loads(raw_messages)
  IN [summary |-> course_data[1].summary,
      messages |-> msgs,
      chat_history |-> new_chat_history(msgs)]

\* lines 154-180: Load Course
LoadCourse(s) ==
  /\ pc[s] = "load"
  /\ LET course_data == retrieve_course_data(table, selected_course[s])
     IN IF course_data # None
          THEN LET loaded == LoadedSession(course_data)
               IN /\ summary' = [summary EXCEPT ![s] = loaded.summary]
                  /\ messages' = [messages EXCEPT ![s] = loaded.messages]
                  /\ chat_history' =
                       [chat_history EXCEPT ![s] = loaded.chat_history]
          ELSE /\ UNCHANGED <<summary, messages, chat_history>>
  /\ pc' = [pc EXCEPT ![s] = "idle"]
  /\ db_courses' = [db_courses EXCEPT ![s] = << >>]
  /\ selected_course' = [selected_course EXCEPT ![s] = SELECT_PLACEHOLDER]
  /\ UNCHANGED <<table, today, history_json, course_name>>

\* faulty variant of delete_course_data: the .eq filter is missing, every row
\* is deleted
delete_course_data_NoFilter(tbl, name, ok) ==
  LET data == IF ok THEN tbl ELSE << >>
  IN [table |-> IF ok THEN << >> ELSE tbl,
      signal |-> IF data # << >> THEN "success" ELSE "error"]

\* delete_course_data, lines 67-79: ok tells whether the store carries out the
\* delete; response.data is the rows it deleted
delete_course_data(tbl, name, ok) ==
  LET data == IF ok THEN [i \in 1..Cardinality(RowsOf(tbl, name)) |-> name]
                    ELSE << >>
  IN [table |-> IF ok THEN DeleteRows(tbl, name) ELSE tbl,
      signal |-> IF data # << >> THEN "success" ELSE "error"]

\* lines 186-189: Delete Course
DeleteCourse(s, ok) ==
  /\ pc[s] = "delete"
  /\ LET r == delete_course_data(table, selected_course[s], ok)
     IN /\ table' = r.table
  /\ summary' = [summary EXCEPT ![s] = EMPTY]
  /\ messages' = [messages EXCEPT ![s] = << >>]
  /\ pc' = [pc EXCEPT ![s] = "idle"]
  /\ db_courses' = [db_courses EXCEPT ![s] = << >>]
  /\ selected_course' = [selected_course EXCEPT ![s] = SELECT_PLACEHOLDER]
  /\ UNCHANGED <<today, history_json, chat_history, course_name>>

\* faulty variant of ChatInput: a failed send is caught and stored as the
\* assistant's answer
ChatInput_FailureAnswered(s, prompt, answer) ==
  /\ pc[s] = "idle"
  /\ Len(messages[s]) + 2 <= MaxChat
  /\ answer # RAISES => Len(chat_history[s]) + 2 <= MaxHist
  /\ messages' = [messages EXCEPT ![s] =
       Append(Append(@, [role |-> USER, content |-> prompt]),
              [role |-> ASSISTANT, content |-> answer])]
  /\ IF answer = RAISES
       THEN UNCHANGED chat_history
       ELSE chat_history' = [chat_history EXCEPT ![s] =
              send_message(@, prompt, answer)]
  /\ UNCHANGED <<table, today, history_json, pc, summary, course_name,
                 db_courses, selected_course>>

\* faulty variant of ChatInput: the exchange is put in front of the transcript
ChatInput_AtFront(s, prompt, answer) ==
  /\ pc[s] = "idle"
  /\ Len(messages[s]) + 2 <= MaxChat
  /\ answer # RAISES => Len(chat_history[s]) + 2 <= MaxHist
  /\ IF answer = RAISES
       THEN /\ messages' = [messages EXCEPT ![s] =
                 <<[role |-> USER, content |-> prompt]>> \o @]
            /\ UNCHANGED chat_history
       ELSE /\ messages' = [messages EXCEPT ![s] =
                 <<[role |-> USER, content |-> prompt],
                   [role |-> ASSISTANT, content |-> answer]>> \o @]
            /\ chat_history' = [chat_history EXCEPT ![s] =
                 send_message(@, prompt, answer)]
  /\ UNCHANGED <<table, today, history_json, pc, summary, course_name,
                 db_courses, selected_course>>

\* faulty variant of ChatInput: an answered exchange is saved to the table
\* straight away
ChatInput_AutoSaves(s, prompt, answer) ==
  /\ pc[s] = "idle"
  /\ Len(messages[s]) + 2 <= MaxChat
  /\ answer # RAISES => Len(chat_history[s]) + 2 <= MaxHist
  /\ IF answer = RAISES
       THEN /\ messages' = [messages EXCEPT ![s] =
                 Append(@, [role |-> USER, content |-> prompt])]
            /\ UNCHANGED <<chat_history, table>>
       ELSE /\ messages' = [messages EXCEPT ![s] =
                 Append(Append(@, [role |-> USER, content |-> prompt]),
                        [role |-> ASSISTANT, content |-> answer])]
            /\ chat_history' = [chat_history EXCEPT ![s] =
                 send_message(@, prompt, answer)]
            /\ table' = save_to_db(table, course_name[s], summary[s],
                                    messages'[s], today, TRUE).table
  /\ UNCHANGED <<today, history_json, pc, summary, course_name,
                 db_courses, selected_course>>

\* lines 214-224: chat input; answer is the response text, or RAISES when
\* send_message raises
ChatInput(s, prompt, answer) ==
  /\ pc[s] = "idle"
  /\ Len(messages[s]) + 2 <= MaxChat
  /\ answer # RAISES => Len(chat_history[s]) + 2 <= MaxHist
  /\ IF answer = RAISES
       THEN /\ messages' = [messages EXCEPT ![s] =
                 Append(@, [role |-> USER, content |-> prompt])]
            /\ UNCHANGED chat_history
       ELSE /\ messages' = [messages EXCEPT ![s] =
                 Append(Append(@, [role |-> USER, content |-> prompt]),
                        [role |-> ASSISTANT, content |-> answer])]
            /\ chat_history' = [chat_history EXCEPT ![s] =
                 send_message(@, prompt, answer)]
  /\ UNCHANGED <<table, today, history_json, pc, summary, course_name,
                 db_courses, selected_course>>

\* faulty variant of Summarize: the answer is also appended to the transcript
Summarize_Appends(s, uploaded_files, answer) ==
  /\ pc[s] = "idle"
  /\ uploaded_files # << >>
  /\ answer # RAISES => Len(chat_history[s]) + 2 <= MaxHist
  /\ IF answer = RAISES
       THEN /\ UNCHANGED <<summary, chat_history, messages>>
       ELSE /\ chat_history' = [chat_history EXCEPT ![s] =
                 send_message(@, SummarizePrompt(uploaded_files), answer)]
            /\ summary' = [summary EXCEPT ![s] = answer]
            /\ messages' = [messages EXCEPT ![s] =
                 Append(@, [role |-> ASSISTANT, content |-> answer])]
  /\ UNCHANGED <<table, today, history_json, pc, course_name, db_courses,
                 selected_course>>

\* lines 232-248: Summarize
Summarize(s, uploaded_files, answer) ==
  /\ pc[s] = "idle"
  /\ uploaded_files # << >>
  /\ answer # RAISES => Len(chat_history[s]) + 2 <= MaxHist
  /\ IF answer = RAISES
       THEN /\ UNCHANGED <<summary, chat_history>>
       ELSE /\ chat_history' = [chat_history EXCEPT ![s] =
                 send_message(@, SummarizePrompt(uploaded_files), answer)]
            /\ summary' = [summary EXCEPT ![s] = answer]
  /\ UNCHANGED <<table, today, history_json, pc, messages, course_name,
                 db_courses, selected_course>>

\* the browser session ends: Streamlit discards its session state
EndSession(s) ==
  /\ pc[s] = "idle"
  /\ pc' = [pc EXCEPT ![s] = "new"]
  /\ messages' = [messages EXCEPT ![s] = << >>]
  /\ summary' = [summary EXCEPT ![s] = EMPTY]
  /\ chat_history' = [chat_history EXCEPT ![s] = << >>]
  /\ course_name' = [course_name EXCEPT ![s] = <<"General">>]
  /\ UNCHANGED <<table, today, history_json, db_courses, selected_course>>

\* another session's Save Course or Quick Save, as the store sees it
OtherSave(name, sum, msgs) ==
  /\ table' = save_to_db(table, name, sum, msgs, today, TRUE).table
  /\ UNCHANGED <<today, history_json, pc, messages, summary, chat_history,
                 course_name, db_courses, selected_course>>

\* another session's Delete Course, as the store sees it
OtherDelete(name) ==
  /\ RowsOf(table, name) # {}
  /\ table' = delete_course_data(table, name, TRUE).table
  /\ UNCHANGED <<today, history_json, pc, messages, summary, chat_history,
                 course_name, db_courses, selected_course>>

\* what another session holds when it saves: one answered chat turn and a summary
OtherSummaries == Responses
OtherMessages ==
  { <<[role |-> USER, content |-> <<"q">>],
      [role |-> ASSISTANT, content |-> <<"r", QUOTE>>]>> }

Next ==
  \/ \E s \in Sessions : FirstRun(s)
  \/ \E s \in Sessions, n \in Names : EditCourseName(s, n)
  \/ \E s \in Sessions : Rerun(s)
  \/ \E s \in Sessions, ok \in BOOLEAN : SaveCourse(s, ok)
  \/ \E s \in Sessions, ok \in BOOLEAN : QuickSave(s, ok)
  \/ \E s \in Sessions : ClearCurrentSession(s)
  \/ \E s \in Sessions : ClearChat(s)
  \/ \E s \in Sessions, c \in Names, b \in {"load", "delete"} : BeginSelected(s, c, b)
  \/ \E s \in Sessions : LoadCourse(s)
  \/ \E s \in Sessions, ok \in BOOLEAN : DeleteCourse(s, ok)
  \/ \E s \in Sessions, p \in Prompts, a \in Responses \cup {RAISES} :
       Len(messages[s]) + 2 <= MaxMsgs /\ ChatInput(s, p, a)
  \/ \E s \in Sessions, f \in Uploads, a \in Responses \cup {RAISES} :
       Summarize(s, f, a)
  \/ \E s \in Sessions : EndSession(s)
  \/ \E n \in Names, sum \in OtherSummaries, m \in OtherMessages : OtherSave(n, sum, m)
  \/ \E n \in Names : OtherDelete(n)

Spec == Init /\ [][Next]_vars

\* ------------------------------------------------------------------------
\* The store functions on a table that holds several rows per course name
\* (a table without the unique key, filled by earlier versions)
\* ------------------------------------------------------------------------
RECURSIVE RowLists(_)
\* the tables of at most n rows
RowLists(n) ==
  IF n = 0 THEN {<< >>}
  ELSE LET shorter == RowLists(n - 1)
       IN shorter \cup
          { Append(t, SaveData(name, sum, << >>, 0)) :
              t \in {u \in shorter : Len(u) = n - 1},
              name \in Names, sum \in {EMPTY} \cup Responses }

InitList ==
  /\ table \in RowLists(MaxRows)
  /\ today = 1
  /\ history_json = None
  /\ NoSessionState({"s1"})

NextList ==
  \/ \E s \in Sessions : FirstRun(s)
  \/ \E s \in Sessions, c \in Names, b \in {"load", "delete"} : BeginSelected(s, c, b)
  \/ \E s \in Sessions : LoadCourse(s)
  \/ \E s \in Sessions, ok \in BOOLEAN : DeleteCourse(s, ok)

SpecList == InitList /\ [][NextList]_vars

\* ------------------------------------------------------------------------
\* A session that never saves: longer transcripts over a table that only
\* this session's Delete Course changes
\* ------------------------------------------------------------------------
NextChat ==
  \/ \E s \in Sessions : FirstRun(s)
  \/ \E s \in Sessions, n \in Names : EditCourseName(s, n)
  \/ \E s \in Sessions : Rerun(s)
  \/ \E s \in Sessions : ClearCurrentSession(s)
  \/ \E s \in Sessions : ClearChat(s)
  \/ \E s \in Sessions, c \in Names, b \in {"load", "delete"} : BeginSelected(s, c, b)
  \/ \E s \in Sessions : LoadCourse(s)
  \/ \E s \in Sessions, ok \in BOOLEAN : DeleteCourse(s, ok)
  \/ \E s \in Sessions, p \in Prompts, a \in Responses \cup {RAISES} :
       ChatInput(s, p, a)
  \/ \E s \in Sessions, f \in Uploads, a \in Responses \cup {RAISES} :
       Summarize(s, f, a)
  \/ \E s \in Sessions : EndSession(s)

SpecChat == Init /\ [][NextChat]_vars

\* ------------------------------------------------------------------------
\* Two sessions that chat, summarize and save under the default course name
\* ------------------------------------------------------------------------
InitTwo ==
  /\ table \in InitialTables
  /\ today = 1
  /\ history_json = None
  /\ NoSessionState({"s1", "s2"})

NextTwo ==
  \/ \E s \in Sessions : FirstRun(s)
  \/ \E s \in Sessions, ok \in BOOLEAN : SaveCourse(s, ok)
  \/ \E s \in Sessions, ok \in BOOLEAN : QuickSave(s, ok)
  \/ \E s \in Sessions, p \in Prompts, a \in Responses \cup {RAISES} :
       Len(messages[s]) + 2 <= MaxMsgs /\ ChatInput(s, p, a)
  \/ \E s \in Sessions, f \in Uploads, a \in Responses \cup {RAISES} :
       Summarize(s, f, a)

SpecTwo == InitTwo /\ [][NextTwo]_vars

\* ------------------------------------------------------------------------
\* The role mapping between the transcript and the chat client, on its own
\* ------------------------------------------------------------------------
\* lines 215-222: the transcript entries under which the chat input handler
\* stores the client's turns: the user turn as "user", the model's as "assistant"
messages_of(history) ==
  [i \in 1..Len(history) |->
     [role |-> IF history[i].role = USER THEN USER ELSE ASSISTANT,
      content |-> history[i].parts[1].text]]

\* the messages a transcript may hold
TranscriptMessages ==
  { [role |-> r, content |-> c] :
      r \in {USER, ASSISTANT}, c \in Prompts \cup Responses }

\* the transcripts of at most n messages
Transcripts(n) == UNION { [1..k -> TranscriptMessages] : k \in 0..n }

InitRoles ==
  /\ table = << >>
  /\ today = 1
  /\ history_json = None
  /\ pc = [s \in {"s1"} |-> "idle"]
  /\ messages \in [{"s1"} -> Transcripts(MaxTranscript)]
  /\ summary = [s \in {"s1"} |-> EMPTY]
  /\ chat_history = [s \in {"s1"} |-> << >>]
  /\ course_name = [s \in {"s1"} |-> <<"General">>]
  /\ db_courses = [s \in {"s1"} |-> << >>]
  /\ selected_course = [s \in {"s1"} |-> SELECT_PLACEHOLDER]

\* lines 167-173: the transcript is mapped to the client's form
RoleMapToClient(s) ==
  /\ pc[s] = "idle"
  /\ chat_history' = [chat_history EXCEPT ![s] = new_chat_history(messages[s])]
  /\ pc' = [pc EXCEPT ![s] = "mapped"]
  /\ UNCHANGED <<table, today, history_json, messages, summary, course_name,
                 db_courses, selected_course>>

\* lines 215-222: the client's turns are mapped back to transcript entries
RoleMapBack(s) ==
  /\ pc[s] = "mapped"
  /\ messages' = [messages EXCEPT ![s] = messages_of(chat_history[s])]
  /\ pc' = [pc EXCEPT ![s] = "idle"]
  /\ UNCHANGED <<table, today, history_json, summary, chat_history,
                 course_name, db_courses, selected_course>>

NextRoles ==
  \/ \E s \in Sessions : RoleMapToClient(s)
  \/ \E s \in Sessions : RoleMapBack(s)

SpecRoles == InitRoles /\ [][NextRoles]_vars

\* ------------------------------------------------------------------------
\* Properties
\* ------------------------------------------------------------------------
\* a step in which session s saves successfully (Save Course or Quick Save)
Saves(s) == SaveCourse(s, TRUE) \/ QuickSave(s, TRUE)

\* a step in which the store takes a save of course name n
SaveOf(n) ==
  \/ \E s \in Sessions : course_name[s] = n /\ Saves(s)
  \/ \E sum \in OtherSummaries, m \in OtherMessages : OtherSave(n, sum, m)

\* no row of tbl is named n
NoRow(tbl, n) == \A i \in DOMAIN tbl : tbl[i].course_name # n

\* C1: a successful save of (n, summary, messages) is read back unchanged:
\* retrieve_course_data(n) then returns a record with course_name n, that
\* summary, and a messages string that decodes to the saved list in the same
\* order, and Load Course leaves the session with the summary and the decoded
\* messages of the record it found.
C1_SaveLoadRoundTrip ==
  [][\A s \in Sessions :
       /\ Saves(s) =>
            LET course_data == retrieve_course_data(table', course_name[s])
            IN /\ course_data # None
               /\ course_data[1].course_name = course_name[s]
               /\ course_data[1].summary = summary[s]
               /\ json_loads(course_data[1].messages) = messages[s]
               /\ LoadedSession(course_data).summary = summary[s]
               /\ LoadedSession(course_data).messages = messages[s]
       /\ (LoadCourse(s) /\ ~NoRow(table, selected_course[s])) =>
            LET course_data == retrieve_course_data(table, selected_course[s])
            IN /\ summary'[s] = course_data[1].summary
               /\ messages'[s] = json_loads(course_data[1].messages)
    ]_vars

\* C1 witness: the session has saved a summary and a transcript of one
\* unanswered user message under its course name and has loaded them back:
\* the store holds that record, the session holds its content, and the chat
\* client holds the single user turn that only a load leaves.
C1_Witness ==
  \E s \in Sessions :
    /\ pc[s] = "idle"
    /\ messages[s] = <<[role |-> USER, content |-> <<"q">>]>>
    /\ QUOTE \in Range(summary[s])
    /\ Len(chat_history[s]) = 1
    /\ retrieve_course_data(table, course_name[s])
         = <<SaveData(course_name[s], summary[s], messages[s], today)>>

\* C2: for a course name with no row, retrieve_course_data returns None, and
\* a Load Course that finds no row leaves the session's messages, summary
\* and chat client history unchanged.
C2_LoadAbsent ==
  [][/\ \A n \in Names : NoRow(table, n) => retrieve_course_data(table, n) = None
     /\ \A s \in Sessions :
          (LoadCourse(s) /\ NoRow(table, selected_course[s])) =>
            /\ messages'[s] = messages[s]
            /\ summary'[s] = summary[s]
            /\ chat_history'[s] = chat_history[s]
    ]_vars

\* C2 witness: Load Course was pressed on a listed name whose row another
\* session has deleted since, while the table still holds another course and
\* the session holds a transcript and a chat history.
C2_Witness ==
  \E s \in Sessions :
    /\ pc[s] = "load"
    /\ selected_course[s] \in Range(db_courses[s])
    /\ NoRow(table, selected_course[s])
    /\ table # << >>
    /\ messages[s] # << >>
    /\ chat_history[s] # << >>

\* course name n is absent: not loadable and not listed
Absent(tbl, n) ==
  /\ retrieve_course_data(tbl, n) = None
  /\ \A courses \in retrieve_all_courses(tbl) : n \notin Range(courses)

\* C3: after a delete of course name n that the store carried out, n is
\* absent (retrieve_course_data returns None, retrieve_all_courses does not
\* list it), and n stays absent through every step that is not a save of n.
C3_DeleteThenLoad ==
  [][/\ \A s \in Sessions :
          DeleteCourse(s, TRUE) => Absent(table', selected_course[s])
     /\ \A n \in Names :
          /\ OtherDelete(n) => Absent(table', n)
          /\ (Absent(table, n) /\ ~SaveOf(n)) => Absent(table', n)
    ]_vars

\* C3 witness: Delete Course is about to delete a course that was saved
\* twice (a row from the day before, saved again today), with a second course
\* in the table, and the delete removes exactly that row.
C3_Witness ==
  \E s \in Sessions :
    /\ pc[s] = "delete"
    /\ Len(table) = 2
    /\ table[1].course_name = selected_course[s]
    /\ table[1].date = today
    /\ Len(delete_course_data(table, selected_course[s], TRUE).table) = 1

\* C4: the table holds at most one row per course name; a save under a name
\* replaces that name's summary, messages and date by the saved values and
\* leaves the rows of every other name as they were.
C4_UpsertUnique ==
  [][/\ \A n \in Names : Cardinality(RowsOf(table', n)) <= 1
     /\ \A s \in Sessions :
          Saves(s) =>
            /\ \E i \in DOMAIN table' :
                 table'[i] = [course_name |-> course_name[s],
                              summary |-> summary[s],
                              messages |-> json_dumps(messages[s]),
                              date |-> today]
            /\ \A n \in Names \ {course_name[s]} :
                 retrieve_course_data(table', n) = retrieve_course_data(table, n)
    ]_vars

\* C4 witness: the session saves under a name whose row dates from the day
\* before and holds other content, while another course is in the table; the
\* save keeps the number of rows.
C4_Witness ==
  \E s \in Sessions :
    /\ pc[s] = "idle"
    /\ Len(table) = 2
    /\ \E i \in DOMAIN table :
         /\ table[i].course_name = course_name[s]
         /\ table[i].date # today
         /\ table[i].summary # summary[s]
         /\ table[i].messages # json_dumps(messages[s])
    /\ Len(save_to_db(table, course_name[s], summary[s], messages[s],
                       today, TRUE).table) = 2

\* the names of the rows of tbl
NamesIn(tbl) == {tbl[i].course_name : i \in DOMAIN tbl}

\* no element occurs twice in list
NoDuplicates(list) ==
  \A i, j \in DOMAIN list : list[i] = list[j] => i = j

\* C5: whatever rows the table holds, several rows per name included, every
\* list retrieve_all_courses may return holds each stored name exactly once
\* and no other name, and is empty for the empty table; so does the list a
\* script run has fetched.
C5_ListNamesNoDuplicates ==
  /\ \A courses \in retrieve_all_courses(table) :
       /\ NoDuplicates(courses)
       /\ Range(courses) = NamesIn(table)
       /\ table = << >> => courses = << >>
  /\ \A s \in Sessions :
       pc[s] \in {"load", "delete"} =>
         /\ NoDuplicates(db_courses[s])
         /\ Range(db_courses[s]) = NamesIn(table)

\* C5 witness: a script run has listed the courses of a table that holds two
\* rows of one name and a row of another.
C5_Witness ==
  \E s \in Sessions :
    /\ pc[s] = "load"
    /\ Len(table) = 3
    /\ Cardinality(NamesIn(table)) = 2
    /\ Len(db_courses[s]) = 2

\* C6: when Load Course finds a record, the session's summary and messages
\* become the record's, and the chat client's history becomes exactly the
\* loaded messages in order, each as {role: "user" if the stored role is
\* "user", else "model"; text: content}; its length is the number of loaded
\* messages, so no earlier turn remains.
C6_LoadRebuildsClient ==
  [][\A s \in Sessions :
       (LoadCourse(s) /\ ~NoRow(table, selected_course[s])) =>
         LET course_data == retrieve_course_data(table, selected_course[s])
             loaded == json_loads(course_data[1].messages)
         IN /\ summary'[s] = course_data[1].summary
            /\ messages'[s] = loaded
            /\ Len(chat_history'[s]) = Len(loaded)
            /\ \A i \in 1..Len(loaded) :
                 /\ loaded[i].role = USER => chat_history'[s][i].role = USER
                 /\ loaded[i].role # USER => chat_history'[s][i].role = MODEL
                 /\ chat_history'[s][i].parts = <<[text |-> loaded[i].content]>>
    ]_vars

\* C6 witness: Load Course has rebuilt the client from a transcript that ends
\* with an unanswered user message: the history is that one user turn, which
\* no send leaves behind (a send adds a user and a model turn), and the
\* session holds the loaded transcript and a loaded summary.
C6_Witness ==
  \E s \in Sessions :
    /\ pc[s] = "idle"
    /\ Len(chat_history[s]) = 1
    /\ chat_history[s][1] = [role |-> USER, parts |-> <<[text |-> <<"q">>]>>]
    /\ messages[s] = <<[role |-> USER, content |-> <<"q">>]>>
    /\ summary[s] # EMPTY

\* C7: Clear Current Session empties messages and summary and leaves the
\* course name, the table and the chat client's history as they were.
C7_ClearSessionFrame ==
  [][\A s \in Sessions :
       ClearCurrentSession(s) =>
         /\ messages'[s] = << >>
         /\ summary'[s] = EMPTY
         /\ course_name'[s] = course_name[s]
         /\ table' = table
         /\ chat_history'[s] = chat_history[s]
    ]_vars

\* C7 witness: a session named other than the default holds a transcript, a
\* summary and a chat history when Clear Current Session can be pressed.
C7_Witness ==
  \E s \in Sessions :
    /\ pc[s] = "idle"
    /\ course_name[s] # <<"General">>
    /\ messages[s] # << >>
    /\ summary[s] # EMPTY
    /\ chat_history[s] # << >>
    /\ table # << >>

\* C8: Delete Course on a course other than the session's current course
\* name leaves the session's messages and summary unchanged.
C8_DeleteOtherKeepsSession ==
  [][\A s \in Sessions, ok \in BOOLEAN :
       (DeleteCourse(s, ok) /\ selected_course[s] # course_name[s]) =>
         /\ messages'[s] = messages[s]
         /\ summary'[s] = summary[s]
    ]_vars

\* C9: a Summarize that is answered sets summary to the answer and leaves
\* messages, the course name and the table unchanged.
C9_SummarizeOnlySummary ==
  [][\A s \in Sessions, f \in Uploads, a \in Responses :
       Summarize(s, f, a) =>
         /\ summary'[s] = a
         /\ messages'[s] = messages[s]
         /\ course_name'[s] = course_name[s]
         /\ table' = table
    ]_vars

\* C9 witness: Summarize has been answered in a session that holds a
\* transcript: the client's last turns are the Summarize prompt and the
\* answer, the summary is that answer, and the transcript is still there.
C9_Witness ==
  \E s \in Sessions, f \in Uploads :
    /\ pc[s] = "idle"
    /\ messages[s] # << >>
    /\ Len(chat_history[s]) >= 2
    /\ chat_history[s][Len(chat_history[s]) - 1].parts[1].text = SummarizePrompt(f)
    /\ chat_history[s][Len(chat_history[s])].parts[1].text = summary[s]
    /\ table # << >>

\* the text of a file: its pages' texts, concatenated
FileText(file) == Concat(file)

RECURSIVE PagesOf(_)
\* the pages of the files, in upload order
PagesOf(files) ==
  IF files = << >> THEN << >> ELSE Head(files) \o PagesOf(Tail(files))

RECURSIVE EachThenNewline(_)
\* the texts in order, each followed by one newline
EachThenNewline(texts) ==
  IF texts = << >> THEN << >>
  ELSE Head(texts) \o <<NL>> \o EachThenNewline(Tail(texts))

\* the turns an answered send of prompt adds to the client's history
SentAndAnswered(prompt, answer) ==
  <<[role |-> USER, parts |-> <<[text |-> prompt]>>],
    [role |-> MODEL, parts |-> <<[text |-> answer]>>]>>

\* C10 as claimed: Summarize sends one prompt, the files' texts in upload
\* order, each file's text followed by one newline, then PROMPT.
C10_PromptNewlinePerFile ==
  [][\A s \in Sessions, f \in Uploads, a \in Responses :
       Summarize(s, f, a) =>
         chat_history'[s] = chat_history[s] \o
           SentAndAnswered(
             EachThenNewline([i \in 1..Len(f) |-> FileText(f[i])]) \o PROMPT, a)
    ]_vars

\* C10 as amended: Summarize sends one prompt, the texts of the pages of the
\* files (files in upload order, pages in page order), each page's text
\* followed by one newline, then PROMPT; a file without pages adds nothing.
C10_PromptNewlinePerPage ==
  [][\A s \in Sessions, f \in Uploads, a \in Responses :
       Summarize(s, f, a) =>
         chat_history'[s] = chat_history[s] \o
           SentAndAnswered(EachThenNewline(PagesOf(f)) \o PROMPT, a)
    ]_vars

\* C10 witness: the client's history ends with the prompt "A\nB\n" + PROMPT
\* and its answer, sent by a Summarize of two uploaded files.
C10_Witness ==
  \E s \in Sessions :
    /\ Len(chat_history[s]) >= 2
    /\ chat_history[s][Len(chat_history[s]) - 1] =
         [role |-> USER,
          parts |-> <<[text |-> <<"A", NL, "B", NL>> \o PROMPT]>>]
    /\ chat_history[s][Len(chat_history[s])].parts[1].text = summary[s]

\* a step in which session s presses Save Course or Quick Save
SavePressed(s, ok) == SaveCourse(s, ok) \/ QuickSave(s, ok)

\* the session holds neither a summary nor a message
EmptySession(s) == summary[s] = EMPTY /\ messages[s] = << >>

\* C11: a Save Course or Quick Save of a session whose summary and messages
\* are both empty writes nothing (the table is the same after as before) and
\* a warning is shown instead of the saved notice.
C11_EmptySaveNoOp ==
  [][\A s \in Sessions, ok \in BOOLEAN :
       (SavePressed(s, ok) /\ EmptySession(s)) =>
         /\ table' = table
         /\ SaveCourseNotice(
              save_to_db(table, course_name[s], summary[s], messages[s],
                         today, ok).saved) = "warning"
    ]_vars

\* the step leaves session s's messages, summary and chat client history alone
SessionKept(s) ==
  /\ messages'[s] = messages[s]
  /\ summary'[s] = summary[s]
  /\ chat_history'[s] = chat_history[s]

\* C12: when the store reports failure (save_to_db returns False, or
\* delete_course_data gets an empty response), a failed Save Course shows
\* the warning, and the session's messages, summary and chat client history
\* are the same after the action as before it.
C12_StoreFailureKeepsSession ==
  [][\A s \in Sessions :
       /\ \A ok \in BOOLEAN :
            (SavePressed(s, ok)
               /\ ~save_to_db(table, course_name[s], summary[s], messages[s],
                              today, ok).saved) =>
              /\ SaveCourseNotice(FALSE) = "warning"
              /\ SessionKept(s)
       /\ \A ok \in BOOLEAN :
            (DeleteCourse(s, ok)
               /\ delete_course_data(table, selected_course[s], ok).signal
                    = "error") =>
              SessionKept(s)
    ]_vars

\* C13: for a course name with no row, delete_course_data returns normally
\* (with the empty response, shown as the error message) and the table is
\* the same afterwards, so every other course's row is still there and equal;
\* the Delete Course handler that calls it completes.
C13_DeleteNothingMatched ==
  [][/\ \A n \in Names, ok \in BOOLEAN :
          NoRow(table, n) =>
            delete_course_data(table, n, ok) =
              [table |-> table, signal |-> "error"]
     /\ \A s \in Sessions, ok \in BOOLEAN :
          (DeleteCourse(s, ok) /\ NoRow(table, selected_course[s])) =>
            /\ table' = table
            /\ pc'[s] = "idle"
    ]_vars

\* C13 witness: Delete Course was pressed on a listed name whose row another
\* session has deleted since, while the table holds another course's row.
C13_Witness ==
  \E s \in Sessions :
    /\ pc[s] = "delete"
    /\ selected_course[s] \in Range(db_courses[s])
    /\ NoRow(table, selected_course[s])
    /\ table # << >>

\* a step of session s that is neither a save nor a delete: a chat send,
\* Summarize, Load Course (its listing included), Clear Current Session,
\* Clear Chat, a rerun (first, plain, or after an edit of the course name),
\* or the end of the session
NotSaveNorDelete(s) ==
  \/ \E p \in Prompts, a \in Responses \cup {RAISES} : ChatInput(s, p, a)
  \/ \E f \in Uploads, a \in Responses \cup {RAISES} : Summarize(s, f, a)
  \/ \E c \in Names, b \in {"load", "delete"} : BeginSelected(s, c, b)
  \/ LoadCourse(s)
  \/ ClearCurrentSession(s)
  \/ ClearChat(s)
  \/ FirstRun(s)
  \/ Rerun(s)
  \/ \E n \in Names : EditCourseName(s, n)
  \/ EndSession(s)

\* C14: a step that changes the table is not a chat send, a Summarize, a
\* Load Course, a Clear Current Session, a Clear Chat, a rerun or the end of
\* a session (so it is a Save Course, Quick Save or Delete Course step, of
\* this session or another): each of those leaves every row as it was.
C14_NothingPersistsAutomatically ==
  [][table' # table => \A s \in Sessions : ~NotSaveNorDelete(s)]_vars

\* C14 witness: the session holds a summary from an answered Summarize and a
\* message from a chat send, nothing was saved, and the table is empty.
C14_Witness ==
  \E s \in Sessions :
    /\ pc[s] = "idle"
    /\ messages[s] # << >>
    /\ summary[s] # EMPTY
    /\ Len(chat_history[s]) >= 2
    /\ table = << >>

\* C15: for a transcript whose roles are "user" or "assistant", the client
\* form has one turn per message, in order, with the message's content as its
\* text and the role "user" kept and "assistant" turned into "model"; mapping
\* the client form back gives the original transcript.
C15_RoleMappingLossless ==
  [][\A s \in Sessions :
       /\ RoleMapToClient(s) =>
            /\ Len(chat_history'[s]) = Len(messages[s])
            /\ \A i \in 1..Len(messages[s]) :
                 /\ chat_history'[s][i].parts = <<[text |-> messages[s][i].content]>>
                 /\ messages[s][i].role = USER => chat_history'[s][i].role = USER
                 /\ messages[s][i].role = ASSISTANT =>
                      chat_history'[s][i].role = MODEL
       /\ RoleMapBack(s) => messages'[s] = messages[s]
    ]_vars

\* C15 witness: a transcript of three messages with both roles and both
\* contents has been mapped to the client's form and back.
C15_Witness ==
  \E s \in Sessions :
    /\ pc[s] = "idle"
    /\ Len(messages[s]) = 3
    /\ Len(chat_history[s]) = 3
    /\ {messages[s][i].role : i \in 1..3} = {USER, ASSISTANT}
    /\ {chat_history[s][i].role : i \in 1..3} = {USER, MODEL}
    /\ \E i \in 1..3 : QUOTE \in Range(messages[s][i].content)

\* C16: an answered chat send with text t and response r extends messages by
\* exactly two entries, {user, t} then {assistant, r}, after all earlier
\* entries, which keep their content and order; summary, course name and
\* table are unchanged.
C16_SendAppendsUserThenAssistant ==
  [][\A s \in Sessions, t \in Prompts, r \in Responses :
       ChatInput(s, t, r) =>
         LET n == Len(messages[s])
         IN /\ Len(messages'[s]) = n + 2
            /\ \A i \in 1..n : messages'[s][i] = messages[s][i]
            /\ messages'[s][n + 1] = [role |-> USER, content |-> t]
            /\ messages'[s][n + 2] = [role |-> ASSISTANT, content |-> r]
            /\ summary'[s] = summary[s]
            /\ course_name'[s] = course_name[s]
            /\ table' = table
    ]_vars

\* C16 witness: a send was answered in a session whose transcript already
\* held a message (an unanswered one), under a course name other than the
\* default, with a summary and a row in the table.
C16_Witness ==
  \E s \in Sessions :
    /\ pc[s] = "idle"
    /\ Len(messages[s]) = 3
    /\ messages[s][1].role = USER
    /\ messages[s][2].role = USER
    /\ messages[s][3].role = ASSISTANT
    /\ chat_history[s] = SentAndAnswered(messages[s][2].content,
                                         messages[s][3].content)
    /\ summary[s] # EMPTY
    /\ course_name[s] # <<"General">>
    /\ table # << >>

\* C17: when send_message raises in a chat send, the handler ends there: the
\* transcript is the earlier entries in order followed by the user's message,
\* no assistant entry is added, the summary is unchanged and the client was
\* not sent to again; when it raises in Summarize, messages, summary and the
\* client's history are unchanged.
C17_SendFailureKeepsSession ==
  [][\A s \in Sessions :
       /\ \A t \in Prompts :
            ChatInput(s, t, RAISES) =>
              LET n == Len(messages[s])
              IN /\ Len(messages'[s]) = n + 1
                 /\ \A i \in 1..n : messages'[s][i] = messages[s][i]
                 /\ messages'[s][n + 1] = [role |-> USER, content |-> t]
                 /\ summary'[s] = summary[s]
                 /\ chat_history'[s] = chat_history[s]
       /\ \A f \in Uploads :
            Summarize(s, f, RAISES) =>
              /\ messages'[s] = messages[s]
              /\ summary'[s] = summary[s]
              /\ chat_history'[s] = chat_history[s]
    ]_vars

\* C17 witness: two chat sends in a row have failed in a session that holds
\* a summary: the transcript is the two unanswered user messages and the
\* client's history holds no turn of them.
C17_Witness ==
  \E s \in Sessions :
    /\ pc[s] = "idle"
    /\ Len(messages[s]) = 2
    /\ messages[s][1].role = USER
    /\ messages[s][2].role = USER
    /\ summary[s] # EMPTY
    /\ \A i \in DOMAIN chat_history[s] :
         chat_history[s][i].parts[1].text \notin Prompts

\* C18: the first script run of a session leaves empty messages, an empty
\* summary and a chat client whose history is the content of history.json
\* (empty when the file is absent); a later rerun of the script leaves the
\* session's messages, summary and chat client history as they were.
C18_InitializedOnce ==
  [][\A s \in Sessions :
       /\ FirstRun(s) =>
            /\ messages'[s] = << >>
            /\ summary'[s] = EMPTY
            /\ history_json = None => chat_history'[s] = << >>
            /\ history_json # None => chat_history'[s] = history_json[1]
       /\ Rerun(s) => SessionKept(s)
    ]_vars

\* C18 witness: a session whose client was seeded from history.json has run
\* the script again after its first run: it holds an unanswered message from
\* a failed send, and the client still holds the file's turns.
C18_Witness ==
  \E s \in Sessions :
    /\ pc[s] = "idle"
    /\ messages[s] # << >>
    /\ history_json # None
    /\ chat_history[s] = history_json[1]
    /\ Len(chat_history[s]) = 2

\* a step of session s: its first run, a save, a chat send or a Summarize
StepTwo(s) ==
  \/ FirstRun(s)
  \/ \E ok \in BOOLEAN : SavePressed(s, ok)
  \/ \E p \in Prompts, a \in Responses \cup {RAISES} : ChatInput(s, p, a)
  \/ \E f \in Uploads, a \in Responses \cup {RAISES} : Summarize(s, f, a)

\* what session s holds in memory
InMemory(s) ==
  <<pc[s], messages[s], summary[s], chat_history[s], course_name[s]>>

\* C19: when sessions save under the same course name, each save that the
\* store carries out leaves exactly one row of that name, equal as a whole
\* to the record the saving session wrote (its name, summary, encoded messages
\* and date); the row stays as it is until the next save of that name, so it
\* is always the last writer's; and a step of one session leaves what every
\* other session holds in memory unchanged.
C19_LastWriterWins ==
  [][/\ \A s \in Sessions :
          Saves(s) =>
            /\ Cardinality(RowsOf(table', course_name[s])) = 1
            /\ retrieve_course_data(table', course_name[s]) =
                 <<SaveData(course_name[s], summary[s], messages[s], today)>>
     /\ \A n \in Names :
          ~(\E s \in Sessions : course_name[s] = n /\ Saves(s)) =>
            retrieve_course_data(table', n) = retrieve_course_data(table, n)
     /\ \A s \in Sessions :
          StepTwo(s) =>
            \A o \in Sessions \ {s} : InMemory(o)' = InMemory(o)
    ]_vars

\* C19 witness: both sessions hold the same course name with different
\* summaries and different messages, and the single row of that name is the
\* record one of them wrote, differing from the other's in both columns.
C19_Witness ==
  \E s, o \in Sessions :
    /\ s # o
    /\ pc[s] = "idle" /\ pc[o] = "idle"
    /\ course_name[s] = course_name[o]
    /\ summary[s] # summary[o]
    /\ messages[s] # messages[o]
    /\ messages[s] # << >> /\ messages[o] # << >>
    /\ Cardinality(RowsOf(table, course_name[s])) = 1
    /\ retrieve_course_data(table, course_name[s]) =
         <<SaveData(course_name[s], summary[s], messages[s], today)>>

RECURSIVE IsSubsequence(_, _)
\* the items of a appear in b, in a's order
IsSubsequence(a, b) ==
  IF a = << >> THEN TRUE
  ELSE IF b = << >> THEN FALSE
  ELSE IF Head(a) = Head(b) THEN IsSubsequence(Tail(a), Tail(b))
  ELSE IsSubsequence(a, Tail(b))

RECURSIVE WithoutUnanswered(_)
\* the transcript without its unanswered user messages (a user message that
\* is not directly followed by an assistant message)
WithoutUnanswered(msgs) ==
  IF msgs = << >> THEN << >>
  ELSE IF Head(msgs).role = USER
          /\ (Len(msgs) = 1 \/ msgs[2].role # ASSISTANT)
    THEN WithoutUnanswered(Tail(msgs))
  ELSE <<Head(msgs)>> \o WithoutUnanswered(Tail(msgs))

\* the turns that stand for a transcript in the client: "user" stays "user",
\* "assistant" becomes "model", the content is the turn's text
ClientTurns(msgs) ==
  [i \in 1..Len(msgs) |->
     [role |-> IF msgs[i].role = ASSISTANT THEN MODEL ELSE msgs[i].role,
      parts |-> <<[text |-> msgs[i].content]>>]]

\* C20 as claimed: whenever no action of the session is in progress, its
\* messages, mapped to the client's roles, appear in order as a subsequence
\* of the chat client's history.
C20_TranscriptInClientHistory ==
  \A s \in Sessions :
    pc[s] = "idle" =>
      IsSubsequence(ClientTurns(messages[s]), chat_history[s])

\* C20 as amended: whenever no action of the session is in progress, its
\* messages other than the unanswered user messages, mapped to the client's
\* roles, appear in order as a subsequence of the chat client's history.
C20_AnsweredInClientHistory ==
  \A s \in Sessions :
    pc[s] = "idle" =>
      IsSubsequence(ClientTurns(WithoutUnanswered(messages[s])),
                    chat_history[s])

\* C20 witness: a session whose client has answered a chat send holds that
\* exchange in its transcript and in the client's history, after a summary
\* was loaded or made.
C20_Witness ==
  \E s \in Sessions :
    /\ pc[s] = "idle"
    /\ Len(messages[s]) = 2
    /\ messages[s][2].role = ASSISTANT
    /\ WithoutUnanswered(messages[s]) = messages[s]
    /\ chat_history[s] = ClientTurns(messages[s])
    /\ summary[s] # EMPTY

====
